---- MODULE Spec2Model ----
(***************************************************************************)
(* Model of the dashboard script src/app.py: load_data (read the sheet,    *)
(* trim the headers, rename the investment column), the facet option       *)
(* lists, the three filters, the KPI metrics, the grouped sums and the     *)
(* top projects.  One run of the script is one step of the model: the      *)
(* first run loads the sheet into the st.cache_data store, every later     *)
(* run is started by the user changing one of the three select boxes.      *)
(*                                                                         *)
(* Strings are sequences of code points, so that str.strip, str.lower,     *)
(* the substring test and sorted() are computed as Python computes them.   *)
(***************************************************************************)
EXTENDS Integers, Sequences, FiniteSets

\* ------------------------------------------------------------------ bounds
MaxRows == 3        \* rows of a sheet of the data family
MaxExtraRows == 1   \* rows beyond TopN of a sheet of the ranking family
MaxInvCols == 2     \* measure-like headers of a sheet of the header family
MaxTail == 5        \* trailing rows of a ranking sheet whose measure varies

\* ----------------------------------------------------------------- strings
S_Investment == <<73,110,118,101,115,116,109,101,110,116>>           \* "Investment"
S_investment == <<105,110,118,101,115,116,109,101,110,116>>          \* "investment"
S_Region     == <<82,101,103,105,111,110>>                           \* "Region"
S_Sector     == <<83,101,99,116,111,114>>                            \* "Sector"
S_LinkToFinance == <<76,105,110,107,32,116,111,32,102,105,110,97,110,99,101>> \* "Link to finance"
S_City       == <<67,105,116,121>>                                   \* "City"
S_Project    == <<80,114,111,106,101,99,116>>                        \* "Project"
S_All        == <<65,108,108>>                                       \* "All"

\* str.strip() removes these code points from both ends.
Whitespace == {9, 10, 11, 12, 13, 32}

RECURSIVE LStrip(_)
LStrip(s) == IF s # <<>> /\ Head(s) \in Whitespace THEN LStrip(Tail(s)) ELSE s

RECURSIVE RStrip(_)
RStrip(s) ==
    IF s # <<>> /\ s[Len(s)] \in Whitespace THEN RStrip(SubSeq(s, 1, Len(s) - 1)) ELSE s

StrStrip(s) == RStrip(LStrip(s))

\* str.lower() on the ASCII range.
StrLower(s) == [i \in 1..Len(s) |-> IF s[i] \in 65..90 THEN s[i] + 32 ELSE s[i]]

\* sub in s
StrContains(sub, s) ==
    \E i \in 0..(Len(s) - Len(sub)) : SubSeq(s, i + 1, i + Len(sub)) = sub

\* s < t for Python str: lexicographic by code point, a proper prefix first.
RECURSIVE StrLess(_, _)
StrLess(s, t) ==
    IF t = <<>> THEN FALSE
    ELSE IF s = <<>> THEN TRUE
    ELSE IF Head(s) # Head(t) THEN Head(s) < Head(t)
    ELSE StrLess(Tail(s), Tail(t))

\* ------------------------------------------------------------------- cells
\* A cell of a sheet or of a DataFrame: a string, a number, or NaN.
StrCell(s) == [k |-> "str", s |-> s, v |-> 0]
NumCell(n) == [k |-> "num", s |-> <<>>, v |-> n]
NaN == [k |-> "nan", s |-> <<>>, v |-> 0]

IsNaN(c) == c.k = "nan"

\* Some of the strings pandas.read_excel reads as missing (keep_default_na).
NA_VALUES == { <<>>, <<78,47,65>>, <<78,65>>, <<110,97,110>> }  \* "", "N/A", "NA", "nan"

\* ------------------------------------------------------------- DataFrames
\* A DataFrame is [columns, rows]; a row keeps its index label.
Blank == [columns |-> <<>>, rows |-> <<>>]

\* pd.read_excel('data.xlsx'): RangeIndex from 0, NA strings become NaN.
ReadCell(c) == IF c.k = "str" /\ c.s \in NA_VALUES THEN NaN ELSE c

read_excel(sheet) ==
    [columns |-> sheet.header,
     rows |-> [i \in 1..Len(sheet.rows) |->
                 [idx |-> i - 1,
                  cells |-> [j \in 1..Len(sheet.rows[i]) |-> ReadCell(sheet.rows[i][j])]]]]

\* df.columns.str.strip()
StripColumns(d) ==
    [d EXCEPT !.columns = [j \in 1..Len(d.columns) |-> StrStrip(d.columns[j])]]

\* df.rename(columns={col: new}): every column labelled col gets the new label.
Rename(d, col, new) ==
    [d EXCEPT !.columns =
        [j \in 1..Len(d.columns) |-> IF d.columns[j] = col THEN new ELSE d.columns[j]]]

IsInvestmentLike(col) == StrContains(S_investment, StrLower(col))

\* A variant of the loop without the break: every column that matches is renamed.
RenameInvestment_NoBreak(d) ==
    [d EXCEPT !.columns =
        [j \in 1..Len(d.columns) |->
            IF IsInvestmentLike(d.columns[j]) THEN S_Investment ELSE d.columns[j]]]

\* The for loop of load_data: the first column that matches is renamed, then break.
RenameInvestment(d) ==
    LET hits == {j \in 1..Len(d.columns) : IsInvestmentLike(d.columns[j])}
    IN  IF hits = {} THEN d
        ELSE LET first == CHOOSE j \in hits : \A h \in hits : j <= h
             IN  Rename(d, d.columns[first], S_Investment)

load_data(sheet) == RenameInvestment(StripColumns(read_excel(sheet)))

\* The positions of the columns labelled name.
ColPos(d, name) == {j \in 1..Len(d.columns) : d.columns[j] = name}

OnlyPos(d, name) == CHOOSE j \in ColPos(d, name) : TRUE

\* d[name] when exactly one column carries the label: the Series of its cells.
Series(d, name) ==
    LET p == OnlyPos(d, name) IN [i \in 1..Len(d.rows) |-> d.rows[i].cells[p]]

\* Series.unique(): the distinct cells, in order of first appearance.
RECURSIVE Unique(_)
Unique(cs) ==
    IF cs = <<>> THEN <<>>
    ELSE LET init == SubSeq(cs, 1, Len(cs) - 1)
             last == cs[Len(cs)]
             u == Unique(init)
         IN  IF \E i \in 1..Len(u) : u[i] = last THEN u ELSE Append(u, last)

\* sorted(list of str): insertion into the ascending result.
RECURSIVE InsertStr(_, _)
InsertStr(sorted, s) ==
    IF sorted = <<>> THEN <<s>>
    ELSE IF StrLess(s, Head(sorted)) THEN <<s>> \o sorted
    ELSE <<Head(sorted)>> \o InsertStr(Tail(sorted), s)

RECURSIVE SortedStrs(_)
SortedStrs(ss) ==
    IF ss = <<>> THEN <<>>
    ELSE InsertStr(SortedStrs(SubSeq(ss, 1, Len(ss) - 1)), ss[Len(ss)])

CellStrs(cs) == [i \in 1..Len(cs) |-> cs[i].s]

\* A variant of the option list without sorted().
FacetOptions_Unsorted(d, name) == <<S_All>> \o CellStrs(Unique(Series(d, name)))

\* ['All'] + sorted(df[name].unique().tolist())
FacetOptions(d, name) == <<S_All>> \o SortedStrs(CellStrs(Unique(Series(d, name))))

\* d[d[name] == value]: the rows whose cell is that string, in order.
FilterEq(d, name, value) ==
    LET p == OnlyPos(d, name)
    IN  [d EXCEPT !.rows =
            SelectSeq(d.rows, LAMBDA r : r.cells[p].k = "str" /\ r.cells[p].s = value)]

\* ------------------------------------------------------------ aggregation
\* Series.sum(): NaN is skipped; the sum of nothing is 0.
RECURSIVE SumCells(_)
SumCells(cs) ==
    IF cs = <<>> THEN 0
    ELSE (IF IsNaN(Head(cs)) THEN 0 ELSE Head(cs).v) + SumCells(Tail(cs))

\* Series.nunique(): the number of distinct values, NaN not counted.
NUnique(cs) == Cardinality({cs[i] : i \in {j \in 1..Len(cs) : ~IsNaN(cs[j])}})

\* Series.mean() as the exact fraction num/den: NaN is skipped, and the mean of
\* no number at all is NaN, written den = 0.
Mean(cs) == [num |-> SumCells(cs), den |-> Len(SelectSeq(cs, LAMBDA c : ~IsNaN(c)))]

\* The literal 0 of the else branch of avg_investment.
Zero == [num |-> 0, den |-> 1]

\* A variant of the grouped sum that keeps the first measure of each group.
GroupSum_First(d, key) ==
    LET kp == OnlyPos(d, key)
        ip == OnlyPos(d, S_Investment)
        keyed == SelectSeq(d.rows, LAMBDA r : ~IsNaN(r.cells[kp]))
        keys == SortedStrs(CellStrs(Unique([i \in 1..Len(keyed) |-> keyed[i].cells[kp]])))
        members(k) == SelectSeq(keyed, LAMBDA r : r.cells[kp].s = k)
    IN  [g \in 1..Len(keys) |->
            [key |-> keys[g], Investment |-> SumCells(<<members(keys[g])[1].cells[ip]>>)]]

\* d.groupby(key)['Investment'].sum().reset_index(): one row per distinct key,
\* the keys ascending (sort=True), rows with a NaN key dropped (dropna=True).
GroupSum(d, key) ==
    LET kp == OnlyPos(d, key)
        ip == OnlyPos(d, S_Investment)
        keyed == SelectSeq(d.rows, LAMBDA r : ~IsNaN(r.cells[kp]))
        keys == SortedStrs(CellStrs(Unique([i \in 1..Len(keyed) |-> keyed[i].cells[kp]])))
        members(k) == SelectSeq(keyed, LAMBDA r : r.cells[kp].s = k)
        measures(rs) == [i \in 1..Len(rs) |-> rs[i].cells[ip]]
    IN  [g \in 1..Len(keys) |->
            [key |-> keys[g], Investment |-> SumCells(measures(members(keys[g])))]]

\* ----------------------------------------------------------------- ranking
TopN == 10

Min(a, b) == IF a < b THEN a ELSE b

\* A variant of the sorting step that puts r in front of the rows that tie
\* with it.
RECURSIVE InsertDesc_Unstable(_, _, _)
InsertDesc_Unstable(sorted, r, p) ==
    IF sorted = <<>> THEN <<r>>
    ELSE IF Head(sorted).cells[p].v <= r.cells[p].v THEN <<r>> \o sorted
    ELSE <<Head(sorted)>> \o InsertDesc_Unstable(Tail(sorted), r, p)

\* One step of a stable descending sort on column p: r goes behind every row
\* whose value is at least its own.
RECURSIVE InsertDesc(_, _, _)
InsertDesc(sorted, r, p) ==
    IF sorted = <<>> THEN <<r>>
    ELSE IF Head(sorted).cells[p].v < r.cells[p].v THEN <<r>> \o sorted
    ELSE <<Head(sorted)>> \o InsertDesc(Tail(sorted), r, p)

RECURSIVE SortDesc(_, _)
SortDesc(rows, p) ==
    IF rows = <<>> THEN <<>>
    ELSE InsertDesc(SortDesc(SubSeq(rows, 1, Len(rows) - 1), p), rows[Len(rows)], p)

\* d.nlargest(n, col) with keep='first'.  With n >= len(d) pandas sorts the whole
\* column descending (NaN last) and takes head(n); otherwise it takes the n
\* largest of the non-NaN values, ties by first occurrence, and appends the
\* NaN rows.
nlargest(d, n, col) ==
    LET p == OnlyPos(d, col)
        dropped == SelectSeq(d.rows, LAMBDA r : ~IsNaN(r.cells[p]))
        nans == SelectSeq(d.rows, LAMBDA r : IsNaN(r.cells[p]))
        ranked == SortDesc(dropped, p)
        all == IF n >= Len(d.rows) THEN ranked \o nans
               ELSE SubSeq(ranked, 1, Min(n, Len(ranked))) \o nans
    IN  [d EXCEPT !.rows = SubSeq(all, 1, Min(n, Len(all)))]

\* d[[c1, c2, c3]]: the named columns, in that order.
Project3(d, c1, c2, c3) ==
    LET ps == <<OnlyPos(d, c1), OnlyPos(d, c2), OnlyPos(d, c3)>>
    IN  [columns |-> <<c1, c2, c3>>,
         rows |-> [i \in 1..Len(d.rows) |->
                     [idx |-> d.rows[i].idx,
                      cells |-> [j \in 1..3 |-> d.rows[i].cells[ps[j]]]]]]

\* ------------------------------------------------------------------ state
VARIABLES
    sheet,              \* data.xlsx: [header, rows]
    cache,              \* the st.cache_data store of load_data: <<>> or <<DataFrame>>
    widgets,            \* the values of the three select boxes in the session
    df,                 \* the rest are the script's variables of the last run
    regions, sectors, finance_status,
    selected_region, selected_sector, selected_finance,
    filtered_df,
    total_investment, num_projects, num_cities, avg_investment,
    region_data, sector_data, finance_data,
    top_projects,
    error,              \* the exception that ended the last run, or "none"
    line                \* the source line that raised it, or 0

vars == <<sheet, cache, widgets, df, regions, sectors, finance_status,
          selected_region, selected_sector, selected_finance, filtered_df,
          total_investment, num_projects, num_cities, avg_investment,
          region_data, sector_data, finance_data, top_projects, error, line>>

\* ------------------------------------------------------------- the script
\* st.selectbox(label, options): the session's value when it is among the
\* options, else the first option.
selectbox(value, options) ==
    IF \E i \in 1..Len(options) : options[i] = value THEN value ELSE options[1]

\* A variant of the filters in which the sector filter starts again from d,
\* losing the region filter.
ApplyFilters_Restart(d, r, s, f) ==
    LET d1 == IF r # S_All THEN FilterEq(d, S_Region, r) ELSE d
        d2 == IF s # S_All THEN FilterEq(d, S_Sector, s) ELSE d1
    IN  IF f # S_All THEN FilterEq(d2, S_LinkToFinance, f) ELSE d2

\* Lines 170-176: the three filters, each skipped for 'All'.
ApplyFilters(d, r, s, f) ==
    LET d1 == IF r # S_All THEN FilterEq(d, S_Region, r) ELSE d
        d2 == IF s # S_All THEN FilterEq(d1, S_Sector, s) ELSE d1
    IN  IF f # S_All THEN FilterEq(d2, S_LinkToFinance, f) ELSE d2

\* What d[name] raises: nothing when one column carries the label, KeyError
\* when none does; with several, d[name] is a DataFrame and the use that
\* follows raises `dup`.
Lookup(d, name, dup) ==
    IF ColPos(d, name) = {} THEN "KeyError"
    ELSE IF Cardinality(ColPos(d, name)) > 1 THEN dup
    ELSE "none"

\* The script's variables before any line has run.
Fresh ==
    [df |-> Blank, regions |-> <<>>, sectors |-> <<>>, finance_status |-> <<>>,
     selected_region |-> <<>>, selected_sector |-> <<>>, selected_finance |-> <<>>,
     filtered_df |-> Blank, total_investment |-> 0, num_projects |-> 0,
     num_cities |-> 0, avg_investment |-> Zero, region_data |-> <<>>,
     sector_data |-> <<>>, finance_data |-> <<>>, top_projects |-> Blank,
     error |-> "none", line |-> 0]

Raise(env, e, l) == [env EXCEPT !.error = e, !.line = l]

\* Lines 287-: the top projects.
RunRanking(env) ==
    IF Lookup(env.filtered_df, S_Project, "none") # "none"
    THEN Raise(env, "KeyError", 287)
    ELSE [env EXCEPT !.top_projects =
            Project3(nlargest(env.filtered_df, TopN, S_Investment),
                     S_City, S_Project, S_Investment)]

\* Lines 216-265: the grouped sums of the three charts.
RunGroups(env) ==
    RunRanking([env EXCEPT
        !.region_data = GroupSum(env.filtered_df, S_Region),
        !.sector_data = GroupSum(env.filtered_df, S_Sector),
        !.finance_data = GroupSum(env.filtered_df, S_LinkToFinance)])

\* A variant of line 203 without the guard.
AvgInvestment_NoGuard(v) == Mean(Series(v, S_Investment))

\* Line 203: the mean, guarded against the empty view.
AvgInvestment(v) ==
    IF Len(v.rows) > 0 THEN Mean(Series(v, S_Investment)) ELSE Zero

\* Lines 181-207: the four KPI metrics.
RunKpi(env) ==
    LET v == env.filtered_df
    IN  IF ColPos(v, S_Investment) = {} THEN Raise(env, "KeyError", 182)
        ELSE IF Cardinality(ColPos(v, S_Investment)) > 1
        THEN Raise(env, "TypeError", 185)  \* sum() is a Series: the format fails
        ELSE LET e1 == [env EXCEPT
                        !.total_investment = SumCells(Series(v, S_Investment)),
                        !.num_projects = Len(v.rows)]
             IN  IF Lookup(v, S_City, "TypeError") # "none"
                 THEN Raise(e1, Lookup(v, S_City, "TypeError"), 196)
                 ELSE RunGroups([e1 EXCEPT
                        !.num_cities = NUnique(Series(v, S_City)),
                        !.avg_investment = AvgInvestment(v)])

\* Lines 170-176.
RunFilter(env) ==
    RunKpi([env EXCEPT !.filtered_df =
        ApplyFilters(env.df, env.selected_region, env.selected_sector,
                     env.selected_finance)])

\* Lines 156-167: the option lists and the select boxes.
RunSidebar(env, w) ==
    LET d == env.df
    IN  IF Lookup(d, S_Region, "AttributeError") # "none"
        THEN Raise(env, Lookup(d, S_Region, "AttributeError"), 156)
        ELSE LET e1 == [env EXCEPT
                        !.regions = FacetOptions(d, S_Region),
                        !.selected_region = selectbox(w.region, FacetOptions(d, S_Region))]
        IN  IF Lookup(d, S_Sector, "AttributeError") # "none"
            THEN Raise(e1, Lookup(d, S_Sector, "AttributeError"), 161)
            ELSE LET e2 == [e1 EXCEPT
                        !.sectors = FacetOptions(d, S_Sector),
                        !.selected_sector = selectbox(w.sector, FacetOptions(d, S_Sector))]
            IN  IF Lookup(d, S_LinkToFinance, "AttributeError") # "none"
                THEN Raise(e2, Lookup(d, S_LinkToFinance, "AttributeError"), 166)
                ELSE RunFilter([e2 EXCEPT
                        !.finance_status = FacetOptions(d, S_LinkToFinance),
                        !.selected_finance =
                            selectbox(w.finance, FacetOptions(d, S_LinkToFinance))])

\* One run of the script from line 145 on, df being what load_data returned.
Script(d, w) == RunSidebar([Fresh EXCEPT !.df = d], w)

\* The variables after a run that ended as env.
Assign(env) ==
    /\ df' = env.df
    /\ regions' = env.regions
    /\ sectors' = env.sectors
    /\ finance_status' = env.finance_status
    /\ selected_region' = env.selected_region
    /\ selected_sector' = env.selected_sector
    /\ selected_finance' = env.selected_finance
    /\ filtered_df' = env.filtered_df
    /\ total_investment' = env.total_investment
    /\ num_projects' = env.num_projects
    /\ num_cities' = env.num_cities
    /\ avg_investment' = env.avg_investment
    /\ region_data' = env.region_data
    /\ sector_data' = env.sector_data
    /\ finance_data' = env.finance_data
    /\ top_projects' = env.top_projects
    /\ error' = env.error
    /\ line' = env.line

\* The last run got past the line that draws the select box.
Drawn(l) == cache # <<>> /\ (error = "none" \/ line > l)

\* ----------------------------------------------------------------- actions
\* The first run: load_data misses the cache, reads and normalises the sheet;
\* the select boxes show their first option.
FirstRun ==
    /\ cache = <<>>
    /\ cache' = <<load_data(sheet)>>
    /\ \E env \in {Script(load_data(sheet), widgets)} : Assign(env)
    /\ UNCHANGED <<sheet, widgets>>

\* The user picks a region: the script runs again, load_data hits the cache.
SelectRegion(v) ==
    /\ Drawn(157)
    /\ v # widgets.region
    /\ widgets' = [widgets EXCEPT !.region = v]
    /\ \E env \in {Script(cache[1], widgets')} : Assign(env)
    /\ UNCHANGED <<sheet, cache>>

\* A variant of the rerun that narrows the previous view instead of the
\* cached dataset.
SelectSector_Incremental(v) ==
    /\ Drawn(162)
    /\ v # widgets.sector
    /\ widgets' = [widgets EXCEPT !.sector = v]
    /\ \E env \in {Script([cache[1] EXCEPT !.rows = filtered_df.rows], widgets')} : Assign(env)
    /\ UNCHANGED <<sheet, cache>>

SelectSector(v) ==
    /\ Drawn(162)
    /\ v # widgets.sector
    /\ widgets' = [widgets EXCEPT !.sector = v]
    /\ \E env \in {Script(cache[1], widgets')} : Assign(env)
    /\ UNCHANGED <<sheet, cache>>

SelectFinance(v) ==
    /\ Drawn(167)
    /\ v # widgets.finance
    /\ widgets' = [widgets EXCEPT !.finance = v]
    /\ \E env \in {Script(cache[1], widgets')} : Assign(env)
    /\ UNCHANGED <<sheet, cache>>

Options(o) == {o[i] : i \in 1..Len(o)}

Next ==
    \/ FirstRun
    \/ \E v \in Options(regions) : SelectRegion(v)
    \/ \E v \in Options(sectors) : SelectSector(v)
    \/ \E v \in Options(finance_status) : SelectFinance(v)

\* ------------------------------------------------------ the sheets checked
\* The facet, city and project cells of a written row are text; its measure
\* cell is a number of either sign or the text "N/A", which read_excel reads as
\* a missing value.
S_Africa    == <<65,102,114,105,99,97>>              \* "Africa"
S_africa    == <<97,102,114,105,99,97>>              \* "africa"
S_Asia      == <<65,115,105,97>>                     \* "Asia"
S_Transport == <<84,114,97,110,115,112,111,114,116>> \* "Transport"
S_Energy    == <<69,110,101,114,103,121>>            \* "Energy"
S_Committed == <<67,111,109,109,105,116,116,101,100>> \* "Committed"
S_Pipeline  == <<80,105,112,101,108,105,110,101>>    \* "Pipeline"
S_Accra     == <<65,99,99,114,97>>                   \* "Accra"
S_Lagos     == <<76,97,103,111,115>>                 \* "Lagos"
S_Hanoi     == <<72,97,110,111,105>>                 \* "Hanoi"
S_BRT       == <<66,82,84>>                          \* "BRT"
S_NA        == <<78,47,65>>                          \* "N/A"

S_SectorLead       == <<32,83,101,99,116,111,114>>   \* " Sector"
S_InvestmentVolume == <<73,110,118,101,115,116,109,101,110,116,32,118,111,108,117,109,101>> \* "Investment volume"
S_InvestmentVolumeTrail == S_InvestmentVolume \o <<32>>                   \* "Investment volume "
S_CoInvestment     == <<67,111,45,105,110,118,101,115,116,109,101,110,116>> \* "Co-investment"
S_INVESTMENT_USD   == <<73,78,86,69,83,84,77,69,78,84,32,40,85,83,68,41>>   \* "INVESTMENT (USD)"
S_Budget           == <<66,117,100,103,101,116>>                           \* "Budget"

Rec(region, sector, finance, city, inv) ==
    [region |-> region, sector |-> sector, finance |-> finance, city |-> city, inv |-> inv]

\* The written rows: the three of a clean sheet, one whose measure is the text
\* "N/A" and whose region differs in case only, one whose measure is negative.
RowPool ==
    { Rec(S_Africa, S_Transport, S_Committed, S_Accra, NumCell(100)),
      Rec(S_Africa, S_Energy, S_Pipeline, S_Lagos, NumCell(200)),
      Rec(S_Asia, S_Transport, S_Committed, S_Hanoi, NumCell(50)),
      Rec(S_africa, S_Transport, S_Pipeline, S_Accra, StrCell(S_NA)),
      Rec(S_Asia, S_Energy, S_Committed, S_Hanoi, NumCell(-5)) }

\* The cell a written row puts under a header.
CellUnder(h, rec) ==
    LET name == StrStrip(h)
    IN  IF name = S_Region THEN StrCell(rec.region)
        ELSE IF name = S_Sector THEN StrCell(rec.sector)
        ELSE IF name = S_LinkToFinance THEN StrCell(rec.finance)
        ELSE IF name = S_City THEN StrCell(rec.city)
        ELSE IF name = S_Project THEN StrCell(S_BRT)
        ELSE rec.inv

MakeSheet(header, recs) ==
    [header |-> header,
     rows |-> [i \in 1..Len(recs) |-> [j \in 1..Len(header) |-> CellUnder(header[j], recs[i])]]]

FacetHeaders == <<S_Region, S_SectorLead, S_LinkToFinance, S_City, S_Project>>

CanonHeader == FacetHeaders \o <<S_InvestmentVolumeTrail>>

SeqsUpTo(set, n) == UNION {[1..m -> set] : m \in 0..n}

\* Data family: the usual header, up to MaxRows rows of the pool.
DataSheets == {MakeSheet(CanonHeader, recs) : recs \in SeqsUpTo(RowPool, MaxRows)}

\* Ranking family: TopN rows and more, the regions alternating.  The measure
\* is 1 or 2, so that ties abound: "N/A", 1 or 2 in the first two rows, 1 or 2
\* in the last MaxTail rows, 2 in between.
RankRec(i, c) ==
    Rec(IF i % 2 = 1 THEN S_Africa ELSE S_Asia, S_Energy, S_Pipeline, S_Lagos, c)

RankSheets ==
    UNION { { MakeSheet(CanonHeader,
                        [i \in 1..n |->
                            RankRec(i, IF i <= 2 THEN g[i]
                                       ELSE IF i > n - MaxTail THEN h[i - (n - MaxTail)]
                                       ELSE NumCell(2))])
              : g \in [1..2 -> {StrCell(S_NA), NumCell(1), NumCell(2)}],
                h \in [1..MaxTail -> {NumCell(1), NumCell(2)}] }
            : n \in TopN..(TopN + MaxExtraRows) }

\* Header family: the facet headers with at most one left out, then up to
\* MaxInvCols different headers of the pool; two rows.
Drop(s, k) == [j \in 1..(Len(s) - (IF k \in 1..Len(s) THEN 1 ELSE 0)) |->
                 IF k \in 1..Len(s) /\ j >= k THEN s[j + 1] ELSE s[j]]

InvPool == {S_InvestmentVolumeTrail, S_InvestmentVolume, S_Investment,
            S_CoInvestment, S_INVESTMENT_USD, S_Budget}

InvParts == {s \in SeqsUpTo(InvPool, MaxInvCols) :
                \A i, j \in 1..Len(s) : i # j => s[i] # s[j]}

HdrRecs == << Rec(S_Africa, S_Transport, S_Committed, S_Accra, NumCell(100)),
              Rec(S_Asia, S_Energy, S_Pipeline, S_Hanoi, NumCell(50)) >>

HdrSheets ==
    {MakeSheet(Drop(FacetHeaders, k) \o inv, HdrRecs) : k \in 0..Len(FacetHeaders), inv \in InvParts}

Sheets == DataSheets \cup RankSheets \cup HdrSheets

\* ------------------------------------------------------------------- Init
Init ==
    /\ sheet \in Sheets
    /\ cache = <<>>
    /\ widgets = [region |-> S_All, sector |-> S_All, finance |-> S_All]
    /\ df = Fresh.df
    /\ regions = Fresh.regions
    /\ sectors = Fresh.sectors
    /\ finance_status = Fresh.finance_status
    /\ selected_region = Fresh.selected_region
    /\ selected_sector = Fresh.selected_sector
    /\ selected_finance = Fresh.selected_finance
    /\ filtered_df = Fresh.filtered_df
    /\ total_investment = Fresh.total_investment
    /\ num_projects = Fresh.num_projects
    /\ num_cities = Fresh.num_cities
    /\ avg_investment = Fresh.avg_investment
    /\ region_data = Fresh.region_data
    /\ sector_data = Fresh.sector_data
    /\ finance_data = Fresh.finance_data
    /\ top_projects = Fresh.top_projects
    /\ error = Fresh.error
    /\ line = Fresh.line

Spec == Init /\ [][Next]_vars

\* ------------------------------------------------------------- properties
Range(s) == {s[i] : i \in 1..Len(s)}

\* The base dataset has the whole schema: each required column, and the
\* measure, exactly once.
Required == {S_Region, S_Sector, S_LinkToFinance, S_City, S_Project}

WholeSchema(d) ==
    \A name \in Required \cup {S_Investment} : Cardinality(ColPos(d, name)) = 1

\* The last run got past the filters (line 176).
FilterRan == Drawn(176)

\* The cell of row r of the base dataset under the column labelled name.
Field(r, name) == r.cells[OnlyPos(df, name)]

\* Row r equals the selection on every facet that is not 'All'.
Matches(r, selR, selS, selF) ==
    /\ selR = S_All \/ Field(r, S_Region) = StrCell(selR)
    /\ selS = S_All \/ Field(r, S_Sector) = StrCell(selS)
    /\ selF = S_All \/ Field(r, S_LinkToFinance) = StrCell(selF)

MatchesSelected(r) == Matches(r, selected_region, selected_sector, selected_finance)

\* C1: the filtered view is a subset of the dataset, every record in it equals
\* the selection on every facet that is not 'All', and every record of the
\* dataset that does so is in it.
C1_FilterSoundComplete ==
    FilterRan =>
        /\ filtered_df.columns = df.columns
        /\ \A r \in Range(filtered_df.rows) : r \in Range(df.rows) /\ MatchesSelected(r)
        /\ \A r \in Range(df.rows) : MatchesSelected(r) => r \in Range(filtered_df.rows)

\* C1's case: two facets constrained, some records kept and some left out, one
\* of them a record that matches one of the two constraints only.
C1_Witness ==
    /\ FilterRan
    /\ selected_region # S_All
    /\ selected_finance # S_All
    /\ filtered_df.rows # <<>>
    /\ \E r \in Range(df.rows) :
          /\ Field(r, S_Region) # StrCell(selected_region)
          /\ Field(r, S_LinkToFinance) = StrCell(selected_finance)

RECURSIVE SumGroups(_)
SumGroups(g) == IF g = <<>> THEN 0 ELSE Head(g).Investment + SumGroups(Tail(g))

\* C2: the total investment of the filtered view equals the sum of the region
\* group sums and the sum of the sector group sums.
C2_SumDecomposition ==
    Drawn(241) =>
        /\ SumGroups(region_data) = total_investment
        /\ SumGroups(sector_data) = total_investment

\* C2's case: several groups on both axes, one of them with several records,
\* and a total that is not 0.
C2_Witness ==
    /\ cache # <<>> /\ error = "none"
    /\ Len(region_data) >= 2
    /\ Len(sector_data) >= 2
    /\ num_projects > Len(region_data)
    /\ total_investment # 0

\* C3: when the selection matches no record of a dataset with the whole
\* schema, the run raises nothing and the total, the project count, the city
\* count and the average are 0 and the top projects are empty.
C3_EmptyView ==
    cache # <<>> /\ WholeSchema(df) /\ (\A r \in Range(df.rows) : ~MatchesSelected(r)) =>
        /\ error = "none"
        /\ total_investment = 0
        /\ num_projects = 0
        /\ num_cities = 0
        /\ avg_investment = Zero
        /\ top_projects.rows = <<>>

\* C3's case: a dataset with records, none of which matches the selection.
C3_Witness ==
    /\ cache # <<>> /\ WholeSchema(df)
    /\ df.rows # <<>>
    /\ selected_region # S_All
    /\ \A r \in Range(df.rows) : ~MatchesSelected(r)

\* The option list of one facet: 'All', then the strings of the column, each
\* once, ascending by code point.
OptionsOf(opts, name) ==
    /\ opts # <<>>
    /\ opts[1] = S_All
    /\ \A i \in 2..(Len(opts) - 1) : StrLess(opts[i], opts[i + 1])
    /\ {opts[i] : i \in 2..Len(opts)} = {Field(r, name).s : r \in Range(df.rows)}

\* C7: each option list is 'All' followed by exactly the distinct values of
\* the facet in the dataset, each once, ascending and case-sensitive; so it is
\* the same whatever the selection is.
C7_FacetOptions ==
    /\ Drawn(157) => OptionsOf(regions, S_Region)
    /\ Drawn(162) => OptionsOf(sectors, S_Sector)
    /\ Drawn(167) => OptionsOf(finance_status, S_LinkToFinance)

\* C7's case: a selection is in force, and the regions differ in case only, a
\* capital sorting before every small letter.
C7_Witness ==
    /\ Drawn(167)
    /\ selected_region = S_africa
    /\ selected_sector # S_All
    /\ regions = <<S_All, S_Africa, S_Asia, S_africa>>
    /\ \E i, j \in 1..Len(df.rows) :
          i < j /\ Field(df.rows[i], S_Region) = StrCell(S_africa)
                /\ Field(df.rows[j], S_Region) = StrCell(S_Africa)

\* a < b for two measures; nothing is less or more than NaN.
Lt(a, b) == a.k = "num" /\ b.k = "num" /\ a.v < b.v

\* The measure of a row of top_projects, whose columns are City, Project,
\* Investment.
TopInv(t) == t.cells[3]

\* The place of the record labelled idx in the filtered view.
PlaceInView(idx) == CHOOSE k \in 1..Len(filtered_df.rows) : filtered_df.rows[k].idx = idx

\* C4: the top projects are min(TopN, |view|) different records of the view,
\* descending by investment (records without a number last), records of
\* equal investment in their order in the view, and no record left out has a
\* larger investment than one taken.
C4_TopProjects ==
    cache # <<>> /\ error = "none" =>
        LET view == filtered_df.rows
            top == top_projects.rows
        IN  /\ Len(top) = Min(TopN, Len(view))
            /\ \A i \in 1..Len(top) : \E k \in 1..Len(view) :
                  /\ view[k].idx = top[i].idx
                  /\ top[i].cells = <<Field(view[k], S_City), Field(view[k], S_Project),
                                      Field(view[k], S_Investment)>>
            /\ \A i, j \in 1..Len(top) : i < j =>
                  /\ top[i].idx # top[j].idx
                  /\ ~Lt(TopInv(top[i]), TopInv(top[j]))
                  /\ IsNaN(TopInv(top[i])) => IsNaN(TopInv(top[j]))
                  /\ TopInv(top[i]) = TopInv(top[j]) =>
                        PlaceInView(top[i].idx) < PlaceInView(top[j].idx)
            /\ \A k \in 1..Len(view) :
                  (\A i \in 1..Len(top) : top[i].idx # view[k].idx) =>
                      \A i \in 1..Len(top) :
                          /\ ~Lt(TopInv(top[i]), Field(view[k], S_Investment))
                          /\ IsNaN(TopInv(top[i])) => IsNaN(Field(view[k], S_Investment))

\* C4's case: a view of more than TopN records; records that tie are taken,
\* a record that ties with a taken one is left out, and the taken ones do not
\* all tie.
C4_Witness ==
    /\ cache # <<>> /\ error = "none"
    /\ Len(filtered_df.rows) > TopN
    /\ \E i, j \in 1..Len(top_projects.rows) :
          /\ i < j
          /\ TopInv(top_projects.rows[i]) = TopInv(top_projects.rows[j])
    /\ \E i \in 1..Len(top_projects.rows) :
          Lt(TopInv(top_projects.rows[i]), TopInv(top_projects.rows[1]))
    /\ \E k \in 1..Len(filtered_df.rows) :
          /\ \A i \in 1..Len(top_projects.rows) :
                top_projects.rows[i].idx # filtered_df.rows[k].idx
          /\ \E i \in 1..Len(top_projects.rows) :
                TopInv(top_projects.rows[i]) = Field(filtered_df.rows[k], S_Investment)
                /\ top_projects.rows[i].idx < filtered_df.rows[k].idx

\* C8: a selection change leaves the sheet and the cached dataset as they
\* were, the run works on the cached dataset, and its view is the rows of the
\* cached dataset that match the new selection, in the dataset's order.
C8_ViewFromBase ==
    [][cache # <<>> =>
        /\ cache' = cache
        /\ sheet' = sheet
        /\ df' = cache[1]
        /\ (error' = "none" \/ line' > 176) =>
              /\ selected_region' = widgets'.region
              /\ selected_sector' = widgets'.sector
              /\ selected_finance' = widgets'.finance
              /\ filtered_df'.columns = cache[1].columns
              /\ filtered_df'.rows =
                    SelectSeq(cache[1].rows,
                              LAMBDA r : Matches(r, widgets'.region, widgets'.sector,
                                                 widgets'.finance))]_vars

\* C8's case: after at least two selection changes two facets are constrained
\* and the view holds some but not all records of the dataset, among them a
\* record that follows one left out.
C8_Witness ==
    /\ FilterRan
    /\ df = cache[1]
    /\ selected_region # S_All
    /\ selected_sector # S_All
    /\ filtered_df.rows # <<>>
    /\ \E r \in Range(filtered_df.rows), q \in Range(df.rows) :
          q \notin Range(filtered_df.rows) /\ q.idx < r.idx
                /\ Field(q, S_Region) = StrCell(selected_region)

\* The headers of the sheet, trimmed, and the positions of those that contain
\* "investment" in any case.
Trimmed == [j \in 1..Len(sheet.header) |-> StrStrip(sheet.header[j])]

Hits == {j \in 1..Len(Trimmed) : StrContains(S_investment, StrLower(Trimmed[j]))}

Leftmost(set) == CHOOSE j \in set : \A h \in set : j <= h

\* C5: every record of the sheet is loaded, a measure that is no number or is
\* negative is loaded as 0, so that every loaded measure is a number >= 0, and
\* the record is in every view whose constraints it matches.
C5_CoercedToZero ==
    cache # <<>> /\ Cardinality(ColPos(cache[1], S_Investment)) = 1 =>
        LET p == OnlyPos(cache[1], S_Investment)
        IN  /\ Len(cache[1].rows) = Len(sheet.rows)
            /\ \A i \in 1..Len(cache[1].rows) :
                  LET written == sheet.rows[i][p]
                      loaded == cache[1].rows[i].cells[p]
                  IN  /\ loaded.k = "num" /\ loaded.v >= 0
                      /\ written.k # "num" \/ written.v < 0 => loaded = NumCell(0)
            /\ FilterRan =>
                  \A r \in Range(df.rows) : MatchesSelected(r) => r \in Range(filtered_df.rows)

\* C6: a sheet without a header that contains "investment", or without one of
\* the required columns, fails at load time (lines 134-145) with SchemaError.
C6_SchemaError ==
    cache # <<>> /\ (Hits = {} \/ \E name \in Required : name \notin Range(Trimmed)) =>
        /\ error = "SchemaError"
        /\ line \in 134..145

\* The header spellings the exact-match stage of the claim knows.
KnownSpellings == {S_Investment, S_InvestmentVolume}

Known == {j \in 1..Len(Trimmed) : Trimmed[j] \in KnownSpellings}

\* The column at position j was picked: it alone (with the columns that carry
\* the same trimmed header) is renamed to 'Investment', the others keep their
\* trimmed header.
Picked(j) ==
    /\ cache[1].columns[j] = S_Investment
    /\ \A i \in 1..Len(Trimmed) : Trimmed[i] # Trimmed[j] => cache[1].columns[i] = Trimmed[i]

C10_OneInvestmentColumn ==
    cache # <<>> /\ Hits # {} =>
        /\ Cardinality(ColPos(cache[1], S_Investment)) = 1
        /\ \A j \in 1..Len(Trimmed) :
              cache[1].columns[j] # S_Investment => cache[1].columns[j] = Trimmed[j]

====
